---- MODULE Spec2Model ----
(***************************************************************************)
(* Model of the synchronization engine of GitBackup.pyw: get_user_repos,   *)
(* run_git_command, clone_or_pull and process_repos.                       *)
(*                                                                         *)
(* One run of process_repos is a sequential process whose position is pc.  *)
(* The hosting API, the local filesystem and the git subprocess are the    *)
(* environment: every answer they can give is a nondeterministic choice.   *)
(* trace is a history variable: the calls of the two callbacks and of      *)
(* run_git_command, in the order the code makes them.                      *)
(***************************************************************************)
EXTENDS Integers, Sequences, FiniteSets, TLC

\* ---- bounds of the model ----
MaxRepos == 3     \* repositories the hosting API holds for the user, at most
MaxPages == 2     \* last page number for which the API still answers with a next link
MaxPageLen == 2   \* items in one page body, at most
MaxLines == 2     \* output lines read from git subprocesses in one run, at most

\* ---- program constants ----
per_page == 100

None == "None"
username == "user"
base_dir == "base"

\* The personal access token a caller may supply.
Secret == "ghp_secret"
\* The same token followed by a carriage return, as read from a file with
\* CRLF line ends.
BadSecret == "ghp_secret\r"

\* RepoStatus values passed to status_callback:
\* "Processing" = "处理中", "Success" = "成功", "Failed" = "失败", "Skipped" = "跳过"
Terminal == {"Success", "Failed", "Skipped"}

VARIABLES
    pc,             \* position of process_repos (and of the calls it makes)
    status_cb,      \* TRUE iff a status_callback was supplied
    output_cb,      \* TRUE iff an output_callback was supplied
    token,          \* the token argument of process_repos, or None
    page,           \* get_user_repos: page
    acc,            \* get_user_repos: repos (the list being accumulated)
    repos,          \* process_repos: repos (bound when get_user_repos returns)
    err,            \* the exception get_user_repos raised, or None
    idx,            \* process_repos: position of the for loop in repos (1-based)
    success_count,  \* process_repos: success_count
    fail_count,     \* process_repos: fail_count
    cmd,            \* run_git_command: cmd ("clone" or "pull"), None outside a call
    output_lines,   \* run_git_command: output_lines
    returncode,     \* run_git_command: process.returncode, -1 while there is none
    success,        \* clone_or_pull: success (first component of run_git_command's result)
    ok,             \* process_repos: ok (the value clone_or_pull returned)
    result,         \* the value process_repos returned (meaningful when pc = "done")
    fs,             \* filesystem: state of every candidate local path
    nlines,         \* number of subprocess output lines read so far in this run
    orphans,        \* git subprocesses run_git_command left without waiting for
                    \* them, and that are still running
    requests,       \* history: the requests get_user_repos issued, in order
    responses,      \* history: the answers to these requests, in order
    examined,       \* history: what clone_or_pull found at the local path
    ran,            \* history: how the run_git_command call of this clone_or_pull
                    \* call ended: "launch_failed", "read_failed", "exited", or None
    produced,       \* history: raw lines the current subprocess wrote so far
    rets,           \* history: the values clone_or_pull returned, in listing order
    mark,           \* history: Len(trace) when the current clone_or_pull call began
    trace,          \* history: callback calls and run_git_command calls, in order
    controls,       \* GitHubClonerApp: state of run_button and the two checkboxes
    workers,        \* GitHubClonerApp: sync_thread threads that are alive
    session,        \* GitHubClonerApp: sessions started so far
    dialog,         \* GitHubClonerApp: the toggle handler whose error dialog is open, or None
    ui_pc,          \* update_ui: "idle" between ticks, "status" between its two loops
    out_taken,      \* output_queue: items taken out of those put since the session began
    st_taken,       \* status_queue: items taken out of those put since the session began
    output_text,    \* GitHubClonerApp: the lines of output_text
    tree,           \* GitHubClonerApp: the rows of tree, (repo_name, status), in order
    applied         \* history: the update_repo_status calls since the view was cleared

\* The callbacks and the token supplied, the locals of get_user_repos, of
\* the for loop of process_repos, and of one clone_or_pull call.
cbs == <<status_cb, output_cb, token>>
listing == <<page, acc, err, requests, responses>>
loop == <<idx, success_count, fail_count, rets>>
call == <<cmd, output_lines, returncode, success, ok, examined, ran, produced, mark>>
gui == <<controls, workers, session, dialog, ui_pc, out_taken, st_taken, output_text, tree,
         applied>>

vars == <<pc, status_cb, output_cb, token, orphans, page, acc, repos, err, idx, success_count,
          fail_count, cmd, output_lines, returncode, success, ok, result, fs,
          nlines, requests, responses, examined, ran, produced, rets, mark, trace,
          controls, workers, session, dialog, ui_pc, out_taken, st_taken, output_text,
          tree, applied>>

\* ---- data ----

\* One element of the JSON array the listing API returns for the user's
\* i-th repository: it carries more fields than the two the program keeps.
Item(i) == [name |-> i, clone_url |-> <<"https", username, i>>, fork |-> FALSE]

\* The dict appended for one element of a page body.
RepoRef(item) == [name |-> item.name, clone_url |-> item.clone_url]

\* The dicts appended for one page body, in body order.
PageRefs(data) == [k \in 1..Len(data) |-> RepoRef(data[k])]

\* The body of a page that holds the m items following the first n.
PageBody(n, m) == [k \in 1..m |-> Item(n + k)]

\* local_path = os.path.normpath(os.path.join(base_dir, repo_name))
LocalPath(dir, repo_name) == <<dir, repo_name>>

Paths == {LocalPath(base_dir, i) : i \in 1..MaxRepos}

\* "absent": nothing at the path; "plain": the path exists without a .git
\* directory; "repo": the path exists and holds a .git directory.
FsStates == {"absent", "plain", "repo"}

PathExists(f, path) == f[path] # "absent"
IsGitDir(f, path) == f[path] = "repo"

\* ---- subprocess output ----
Whitespace == {" ", "\t", "\r", "\n"}

\* The k-th line a subprocess writes, as the characters read from the pipe
\* (the line terminator included; even lines carry a trailing blank too,
\* every third line is blank).
RawLine(k) ==
    IF k % 3 = 0 THEN <<"\t", "\n">>
    ELSE [j \in 1..k |-> "x"] \o (IF k % 2 = 0 THEN <<" ", "\n">> ELSE <<"\n">>)

RECURSIVE rstrip(_)
rstrip(line) ==
    IF line = <<>> THEN <<>>
    ELSE IF line[Len(line)] \in Whitespace
         THEN rstrip(SubSeq(line, 1, Len(line) - 1))
         ELSE line

\* ---- callbacks ----
StatusEvent(repo_name, status) ==
    [ch |-> "status", kind |-> status, a |-> repo_name, b |-> None]

OutputEvent(kind, a, b) == [ch |-> "output", kind |-> kind, a |-> a, b |-> b]

GitEvent(kind, a, b) == [ch |-> "git", kind |-> kind, a |-> a, b |-> b]

\* As EmitStatus, with the skip branch lacking its status call.
EmitStatus_dropsSkipped(tr, repo_name, status) ==
    IF status_cb /\ status # "Skipped"
    THEN Append(tr, StatusEvent(repo_name, status))
    ELSE tr

\* if status_callback: status_callback(repo_name, status)
EmitStatus(tr, repo_name, status) ==
    IF status_cb THEN Append(tr, StatusEvent(repo_name, status)) ELSE tr

\* As EmitOutput, with the skip branch lacking its log line.
EmitOutput_noSkipLine(tr, kind, a, b) ==
    IF output_cb /\ kind # "skip" THEN Append(tr, OutputEvent(kind, a, b)) ELSE tr

\* if output_callback: output_callback(msg)
EmitOutput(tr, kind, a, b) ==
    IF output_cb THEN Append(tr, OutputEvent(kind, a, b)) ELSE tr

NoError == [class |-> None, code |-> 0, rate_limit |-> FALSE, cause |-> None]

Init ==
    /\ pc = "start"
    /\ status_cb \in BOOLEAN
    /\ output_cb \in BOOLEAN
    /\ token \in {None, Secret, BadSecret}
    /\ orphans = 0
    /\ page = 1
    /\ acc = <<>>
    /\ repos = <<>>
    /\ err = NoError
    /\ idx = 1
    /\ success_count = 0
    /\ fail_count = 0
    /\ cmd = None
    /\ output_lines = <<>>
    /\ returncode = -1
    /\ success = FALSE
    /\ ok = FALSE
    /\ result = FALSE
    /\ fs \in [Paths -> FsStates]
    /\ nlines = 0
    /\ requests = <<>>
    /\ responses = <<>>
    /\ examined = None
    /\ ran = None
    /\ produced = <<>>
    /\ rets = <<>>
    /\ mark = 0
    /\ trace = <<>>
    /\ controls = "normal"
    /\ workers = 0
    /\ session = 0
    /\ dialog = None
    /\ ui_pc = "idle"
    /\ out_taken = 0
    /\ st_taken = 0
    /\ output_text = <<>>
    /\ tree = <<>>
    /\ applied = <<>>

\* ---- get_user_repos ----

\* headers = {}; if token: headers["Authorization"] = f"token {token}"
Headers(t) == IF t # None THEN <<"Authorization", "token", t>> ELSE <<>>

\* urlopen refuses to send a header value that holds a bare line break: it
\* raises ValueError("Invalid header value b'token <token>'") before anything
\* goes out.
IllegalHeaderValue(t) == t = BadSecret

\* As Request, with the Authorization header built for the first page only.
Request_authOnFirstPage ==
    [page |-> page, per_page |-> per_page,
     headers |-> IF page = 1 THEN Headers(token) ELSE <<>>]

\* The request of one loop iteration.
Request == [page |-> page, per_page |-> per_page, headers |-> Headers(token)]

\* As NextPage, advancing by two.
NextPage_skipsOne(p) == p + 2

\* page += 1
NextPage(p) == p + 1

\* The loop goes on after a page iff its body is not empty and the Link
\* header holds rel="next".
MorePages(data, next) == data # <<>> /\ next

HttpCodes == {401, 403, 404, 429, 500}

\* As ClassifyHttp, without the 404 branch.
ClassifyHttp_no404(code, rate_limit) ==
    [class |-> IF code = 403 /\ rate_limit THEN "RateLimited" ELSE "APIRequestFailed",
     code |-> code, rate_limit |-> rate_limit, cause |-> "http"]

\* As ClassifyHttp, with the rate-limit test made for every status.
ClassifyHttp_anyRateLimit(code, rate_limit) ==
    [class |-> IF code = 404 THEN "UserNotFound"
               ELSE IF rate_limit THEN "RateLimited"
               ELSE "APIRequestFailed",
     code |-> code, rate_limit |-> rate_limit, cause |-> "http"]

\* The exception raised for an HTTPError with this code, whose text does
\* (rate_limit) or does not contain "rate limit".
ClassifyHttp(code, rate_limit) ==
    [class |-> IF code = 404 THEN "UserNotFound"
               ELSE IF code = 403 /\ rate_limit THEN "RateLimited"
               ELSE "APIRequestFailed",
     code |-> code, rate_limit |-> rate_limit, cause |-> "http"]

\* What can fail in a request without an HTTP error status: the connection,
\* a timeout, a body that is not JSON, an item without name or clone_url, a
\* header value that cannot be sent.
TransportCauses ==
    {"connection", "timeout", "malformed_body", "missing_field", "invalid_header"}

\* The exception raised for any other failure of the request.
TransportError(cause) ==
    [class |-> "TransportError", code |-> 0, rate_limit |-> FALSE, cause |-> cause]

\* The text of the exception, as far as it depends on the failure: the two
\* fixed messages, "API request failed: {e}" with the status and the reason
\* of the HTTPError, "error: {e}" with the underlying exception, whose text
\* for a refused header value quotes that value.
ErrorText(e) ==
    IF e.class \in {"UserNotFound", "RateLimited"} THEN <<e.class>>
    ELSE IF e.class = "APIRequestFailed" THEN <<e.class, e.code, e.rate_limit>>
    ELSE IF e.cause = "invalid_header" THEN <<e.class, e.cause, token>>
    ELSE <<e.class, e.cause>>

\* process_repos announces the listing and calls get_user_repos.
ProcessReposStart ==
    /\ pc = "start"
    /\ trace' = EmitOutput(trace, "fetching", username, None)
    /\ page' = 1
    /\ acc' = <<>>
    /\ pc' = "request"
    /\ UNCHANGED <<gui, cbs, orphans, err, requests, responses, loop, call, repos, result, fs, nlines>>

\* One iteration of the while loop answered with a 2xx response whose body
\* holds m items and whose Link header does (next) or does not advertise a
\* next page. When the loop ends, get_user_repos returns and process_repos
\* binds repos.
GetPageOk(m, next) ==
    /\ pc = "request"
    /\ ~IllegalHeaderValue(token)
    /\ Len(acc) + m <= MaxRepos
    /\ next => page < MaxPages
    /\ requests' = Append(requests, Request)
    /\ LET data == PageBody(Len(acc), m)
       IN /\ responses' = Append(responses, [status |-> 200, rate_limit |-> FALSE,
                                             cause |-> None,
                                             data |-> data, next |-> next])
          /\ acc' = acc \o PageRefs(data)
          /\ IF MorePages(data, next)
             THEN /\ page' = NextPage(page)
                  /\ pc' = "request"
                  /\ UNCHANGED repos
             ELSE /\ repos' = acc'
                  /\ pc' = "listed"
                  /\ UNCHANGED page
    /\ UNCHANGED <<gui, cbs, orphans, err, loop, call, result, fs, nlines, trace>>

\* As ListingFailed, with the failure swallowed and the pages fetched so far
\* returned.
ListingFailed_partial(rs, fetched) == [pc |-> "listed", repos |-> fetched]

\* Where process_repos goes on, and what its repos holds, when a request
\* fails after the items in fetched were accumulated: the exception leaves
\* get_user_repos, so repos is never bound.
ListingFailed(rs, fetched) == [pc |-> "list_error", repos |-> rs]

\* One iteration answered with an HTTP error status.
GetPageHttpError(code, rate_limit) ==
    /\ pc = "request"
    /\ ~IllegalHeaderValue(token)
    /\ requests' = Append(requests, Request)
    /\ responses' = Append(responses, [status |-> code, rate_limit |-> rate_limit,
                                       cause |-> "http",
                                       data |-> <<>>, next |-> FALSE])
    /\ err' = ClassifyHttp(code, rate_limit)
    /\ pc' = ListingFailed(repos, acc).pc
    /\ repos' = ListingFailed(repos, acc).repos
    /\ UNCHANGED <<gui, cbs, orphans, page, acc, loop, call, result, fs, nlines, trace>>

\* One iteration that fails without an HTTP status (connection, timeout,
\* undecodable body, item without name or clone_url), or whose request is
\* refused for its header value.
GetPageTransportError(cause) ==
    /\ pc = "request"
    /\ cause = "invalid_header" <=> IllegalHeaderValue(token)
    /\ requests' = Append(requests, Request)
    /\ responses' = Append(responses, [status |-> 0, rate_limit |-> FALSE,
                                       cause |-> cause,
                                       data |-> <<>>, next |-> FALSE])
    /\ err' = TransportError(cause)
    /\ pc' = ListingFailed(repos, acc).pc
    /\ repos' = ListingFailed(repos, acc).repos
    /\ UNCHANGED <<gui, cbs, orphans, page, acc, loop, call, result, fs, nlines, trace>>

\* ---- process_repos ----

\* except Exception as e: log the error and return False.
HandleListError ==
    /\ pc = "list_error"
    /\ trace' = EmitOutput(trace, "error", err.class, ErrorText(err))
    /\ result' = FALSE
    /\ pc' = "done"
    /\ UNCHANGED <<gui, cbs, orphans, listing, loop, call, repos, fs, nlines>>

\* As EmptyResult, with an empty listing reported as a failure.
EmptyResult_false == FALSE

\* The value returned for an empty listing.
EmptyResult == TRUE

\* if not repos: log and return True.
NoRepos ==
    /\ pc = "listed"
    /\ repos = <<>>
    /\ trace' = EmitOutput(trace, "none_found", None, None)
    /\ result' = EmptyResult
    /\ pc' = "done"
    /\ UNCHANGED <<gui, cbs, orphans, listing, loop, call, repos, fs, nlines>>

\* The count line and the start of the for loop. The locals of the
\* get_user_repos call that returned are gone, and with them the history of
\* its requests.
BeginProcessing ==
    /\ pc = "listed"
    /\ repos # <<>>
    /\ trace' = EmitOutput(trace, "found", Len(repos), None)
    /\ success_count' = 0
    /\ fail_count' = 0
    /\ idx' = 1
    /\ pc' = "cp_begin"
    /\ page' = 1
    /\ acc' = <<>>
    /\ requests' = <<>>
    /\ responses' = <<>>
    /\ UNCHANGED <<gui, cbs, orphans, err, rets, call, repos, result, fs, nlines>>

\* ---- clone_or_pull ----

\* The repository the for loop is at, and its local path.
Repo == repos[idx]
Path == LocalPath(base_dir, Repo.name)

\* As Decision, with an absent path taken for a working copy.
Decision_pullWhenAbsent(f, path) ==
    IF ~PathExists(f, path) THEN "pull"
    ELSE IF ~IsGitDir(f, path) THEN "skip"
    ELSE "pull"

\* As Decision, without the .git test of an existing path.
Decision_noGitTest(f, path) ==
    IF ~PathExists(f, path) THEN "clone" ELSE "pull"

\* As Decision, with an absent path cloned only when somebody listens.
Decision_cloneOnlyWhenLogged(f, path) ==
    IF ~PathExists(f, path) THEN (IF output_cb THEN "clone" ELSE "skip")
    ELSE IF ~IsGitDir(f, path) THEN "skip"
    ELSE "pull"

\* The branch clone_or_pull takes for what it finds at the local path.
Decision(f, path) ==
    IF ~PathExists(f, path) THEN "clone"
    ELSE IF ~IsGitDir(f, path) THEN "skip"
    ELSE "pull"

\* As TerminalStatus, with the Failed status never emitted.
TerminalStatus_noFailed(succ) == IF succ THEN "Success" ELSE "Processing"

\* The status emitted after run_git_command returned.
TerminalStatus(succ) == IF succ THEN "Success" ELSE "Failed"

\* clone_or_pull is entered: the Processing status.
CpStart ==
    /\ pc = "cp_begin"
    /\ mark' = Len(trace)
    /\ trace' = EmitStatus(trace, Repo.name, "Processing")
    /\ pc' = "cp_check"
    /\ UNCHANGED <<gui, cbs, orphans, listing, loop, cmd, output_lines, returncode, success, ok,
                   examined, ran, produced, repos, result, fs, nlines>>

\* The path does not exist: announce the clone.
CpClone ==
    /\ pc = "cp_check"
    /\ Decision(fs, Path) = "clone"
    /\ examined' = fs[Path]
    /\ trace' = EmitOutput(trace, "clone", Repo.clone_url, Path)
    /\ cmd' = "clone"
    /\ pc' = "run"
    /\ UNCHANGED <<gui, cbs, orphans, ran, listing, loop, output_lines, returncode, success, ok,
                   produced, mark, repos, result, fs, nlines>>

\* The path exists and holds no .git directory: the skip line.
CpSkipLog ==
    /\ pc = "cp_check"
    /\ Decision(fs, Path) = "skip"
    /\ examined' = fs[Path]
    /\ trace' = EmitOutput(trace, "skip", Path, None)
    /\ pc' = "skip_status"
    /\ UNCHANGED <<gui, cbs, orphans, ran, listing, loop, cmd, output_lines, returncode, success, ok,
                   produced, mark, repos, result, fs, nlines>>

\* The Skipped status and return False.
CpSkipStatus ==
    /\ pc = "skip_status"
    /\ trace' = EmitStatus(trace, Repo.name, "Skipped")
    /\ ok' = FALSE
    /\ pc' = "cp_ret"
    /\ UNCHANGED <<gui, cbs, orphans, listing, loop, cmd, output_lines, returncode, success,
                   examined, ran, produced, mark, repos, result, fs, nlines>>

\* The path exists and holds a .git directory: announce the pull.
CpPull ==
    /\ pc = "cp_check"
    /\ Decision(fs, Path) = "pull"
    /\ examined' = fs[Path]
    /\ trace' = EmitOutput(trace, "pull", Path, None)
    /\ cmd' = "pull"
    /\ pc' = "run"
    /\ UNCHANGED <<gui, cbs, orphans, ran, listing, loop, output_lines, returncode, success, ok,
                   produced, mark, repos, result, fs, nlines>>

\* ---- run_git_command ----

\* The call of run_git_command as clone_or_pull makes it:
\* ["git", "clone", repo_url, local_path], or ["git", "pull"] with cwd=local_path.
GitCall ==
    IF cmd = "clone" THEN GitEvent("clone", Repo.clone_url, Path)
    ELSE GitEvent("pull", None, Path)

\* As GitSucceeded, with the test for a negative code only.
GitSucceeded_nonNegative(code) == code >= 0

\* As GitSucceeded, with the exit code ignored.
GitSucceeded_ignoresCode(code) == TRUE

\* if process.returncode != 0: return False, ...  else: return True, ...
GitSucceeded(code) == code = 0

\* run_git_command is called and Popen starts the subprocess.
RunGitLaunch ==
    /\ pc = "run"
    /\ trace' = Append(trace, GitCall)
    /\ output_lines' = <<>>
    /\ produced' = <<>>
    /\ pc' = "reading"
    /\ UNCHANGED <<gui, cbs, orphans, listing, loop, cmd, returncode, success, ok, examined, ran, mark,
                   repos, result, fs, nlines>>

\* run_git_command is called and Popen raises: return False, str(e).
RunGitLaunchFail ==
    /\ pc = "run"
    /\ trace' = Append(trace, GitCall)
    /\ success' = FALSE
    /\ ran' = "launch_failed"
    /\ pc' = "cp_status"
    /\ UNCHANGED <<gui, cbs, orphans, listing, loop, cmd, output_lines, returncode, ok, examined,
                   produced, mark, repos, result, fs, nlines>>

\* One iteration of  for line in process.stdout.
ReadLine ==
    /\ pc = "reading"
    /\ nlines < MaxLines
    /\ LET raw == RawLine(Len(produced) + 1)
           line == rstrip(raw)
       IN /\ produced' = Append(produced, raw)
          /\ output_lines' = Append(output_lines, line)
          /\ trace' = EmitOutput(trace, "out", line, None)
    /\ nlines' = nlines + 1
    /\ UNCHANGED <<gui, pc, cbs, orphans, listing, loop, cmd, returncode, success, ok, examined, ran,
                   mark, repos, result, fs>>

\* Reading the output raises (the bytes are not text in the locale's
\* encoding, or the output callback raises): except Exception returns
\* False, str(e). process.wait() was not reached, nothing stops the
\* subprocess.
GitReadError ==
    /\ pc = "reading"
    /\ success' = FALSE
    /\ orphans' = orphans + 1
    /\ ran' = "read_failed"
    /\ pc' = "cp_status"
    /\ UNCHANGED <<gui, cbs, listing, loop, cmd, output_lines, returncode, ok, examined,
                   produced, mark, repos, result, fs, nlines, trace>>

\* A subprocess that was left running ends.
OrphanExit ==
    /\ orphans > 0
    /\ orphans' = orphans - 1
    /\ UNCHANGED <<gui, pc, cbs, listing, loop, call, repos, result, fs, nlines, trace>>

\* The filesystem after the subprocess ended: a clone that succeeded left a
\* working copy at the path.
FsAfter(f, c, code, path) ==
    IF c = "clone" /\ code = 0 THEN [f EXCEPT ![path] = "repo"] ELSE f

\* The output stream closes and process.wait() gives the exit code.
GitExit(code) ==
    /\ pc = "reading"
    /\ returncode' = code
    /\ success' = GitSucceeded(code)
    /\ fs' = FsAfter(fs, cmd, code, Path)
    /\ ran' = "exited"
    /\ pc' = "cp_status"
    /\ UNCHANGED <<gui, cbs, orphans, listing, loop, cmd, output_lines, ok, examined, produced,
                   mark, repos, result, nlines, trace>>

\* ---- clone_or_pull: after run_git_command ----

\* The terminal status of a clone or a pull, and return success.
CpTerminal ==
    /\ pc = "cp_status"
    /\ trace' = EmitStatus(trace, Repo.name, TerminalStatus(success))
    /\ ok' = success
    /\ pc' = "cp_ret"
    /\ UNCHANGED <<gui, cbs, orphans, listing, loop, cmd, output_lines, returncode, success,
                   examined, ran, produced, mark, repos, result, fs, nlines>>

\* ---- process_repos: the loop body after the call, and the summary ----

\* As SessionResult, with the failure count ignored.
SessionResult_ignoresFailures(fc) == TRUE

\* return fail_count == 0
SessionResult(fc) == fc = 0

\* As LoopNext, with the loop left at the first call that returned false.
LoopNext_stopsAtFailure(i, n, ret) ==
    IF ret /\ i < n THEN "cp_begin" ELSE "summary"

\* Where process_repos goes on after the call for the i-th of n repositories
\* returned ret: the for loop takes the next repository whatever ret is.
LoopNext(i, n, ret) == IF i < n THEN "cp_begin" ELSE "summary"

\* ok is counted and the for loop advances; the locals of the call that
\* returned are gone.
CpReturn ==
    /\ pc = "cp_ret"
    /\ IF ok
       THEN /\ success_count' = success_count + 1
            /\ UNCHANGED fail_count
       ELSE /\ fail_count' = fail_count + 1
            /\ UNCHANGED success_count
    /\ rets' = Append(rets, ok)
    /\ idx' = idx + 1
    /\ pc' = LoopNext(idx, Len(repos), ok)
    /\ cmd' = None
    /\ output_lines' = <<>>
    /\ returncode' = -1
    /\ success' = FALSE
    /\ ok' = FALSE
    /\ examined' = None
    /\ ran' = None
    /\ produced' = <<>>
    /\ UNCHANGED <<gui, cbs, orphans, listing, mark, repos, result, fs, nlines, trace>>

\* The summary line and the return value.
Summary ==
    /\ pc = "summary"
    /\ trace' = EmitOutput(trace, "summary", success_count, fail_count)
    /\ result' = SessionResult(fail_count)
    /\ pc' = "done"
    /\ UNCHANGED <<gui, cbs, orphans, listing, loop, call, repos, fs, nlines>>

Next ==
    \/ ProcessReposStart
    \/ \E m \in 0..MaxPageLen, next \in BOOLEAN : GetPageOk(m, next)
    \/ \E code \in HttpCodes, rate_limit \in BOOLEAN : GetPageHttpError(code, rate_limit)
    \/ \E cause \in TransportCauses : GetPageTransportError(cause)
    \/ HandleListError
    \/ NoRepos
    \/ BeginProcessing
    \/ CpStart
    \/ CpClone
    \/ CpSkipLog
    \/ CpSkipStatus
    \/ CpPull
    \/ RunGitLaunch
    \/ RunGitLaunchFail
    \/ ReadLine
    \/ \E code \in {0, 1} : GitExit(code)
    \/ GitReadError
    \/ OrphanExit
    \/ CpTerminal
    \/ CpReturn
    \/ Summary

Spec == Init /\ [][Next]_vars

\* ---- GitHubClonerApp (background + poll mode) ----

\* Sessions one run of the application starts, lines and repositories of a
\* session of the application.
MaxSessions == 2
GuiMaxRepos == 1
GuiMaxLines == 1

\* ("done", None), the last item sync_thread puts on output_queue.
DoneItem == OutputEvent("done", None, None)

\* isinstance(item, tuple) and item[0] == "done"
IsDone(item) == item.kind = "done"

\* What the callbacks of sync_thread put on each queue since the session
\* began, in the order of the puts (before them, what was left in the queue).
OutputPuts == SelectSeq(trace, LAMBDA e : e.ch = "output")
StatusPuts == SelectSeq(trace, LAMBDA e : e.ch = "status")

\* queue.Queue: what was put and not yet taken, oldest first.
Rest(puts, taken) == SubSeq(puts, taken + 1, Len(puts))
output_queue == Rest(OutputPuts, out_taken)
status_queue == Rest(StatusPuts, st_taken)

\* The items of both queues, as start_sync finds them.
Unconsumed == output_queue \o status_queue

\* The filesystems the application is run on: what lies at the paths of
\* repositories no listing of a session holds is left out (absent).
GuiFilesystems ==
    {f \in [Paths -> FsStates] :
        \A i \in (GuiMaxRepos + 1)..MaxRepos : f[LocalPath(base_dir, i)] = "absent"}

\* token = self.token_var.get().strip() or None
Strip(t) == IF t = BadSecret THEN Secret ELSE t

\* As ButtonEnabled, with the button usable in every state.
ButtonEnabled_always(state) == TRUE

\* A ttk widget invokes its command only when its state is not disabled.
ButtonEnabled(state) == state = "normal"

\* GUI start: the window is built, the queues are empty, update_ui is armed,
\* no thread runs.
InitGui ==
    /\ pc = "stopped"
    /\ status_cb = TRUE
    /\ output_cb = TRUE
    /\ token = None
    /\ orphans = 0
    /\ page = 1
    /\ acc = <<>>
    /\ repos = <<>>
    /\ err = NoError
    /\ idx = 1
    /\ success_count = 0
    /\ fail_count = 0
    /\ cmd = None
    /\ output_lines = <<>>
    /\ returncode = -1
    /\ success = FALSE
    /\ ok = FALSE
    /\ result = FALSE
    /\ fs \in GuiFilesystems
    /\ nlines = 0
    /\ requests = <<>>
    /\ responses = <<>>
    /\ examined = None
    /\ ran = None
    /\ produced = <<>>
    /\ rets = <<>>
    /\ mark = 0
    /\ trace = <<>>
    /\ controls = "normal"
    /\ workers = 0
    /\ session = 0
    /\ dialog = None
    /\ ui_pc = "idle"
    /\ out_taken = 0
    /\ st_taken = 0
    /\ output_text = <<>>
    /\ tree = <<>>
    /\ applied = <<>>

\* start_sync with a username and a directory: clear the view, disable the
\* controls, start sync_thread.
StartSync(t) ==
    /\ ui_pc = "idle"
    /\ ButtonEnabled(controls)
    /\ session < MaxSessions
    /\ output_text' = <<>>
    /\ tree' = <<>>
    /\ applied' = <<>>
    /\ controls' = "disabled"
    /\ workers' = workers + 1
    /\ session' = session + 1
    /\ token' = Strip(t)
    /\ pc' = "start"
    /\ trace' = Unconsumed
    /\ out_taken' = 0
    /\ st_taken' = 0
    /\ page' = 1
    /\ acc' = <<>>
    /\ repos' = <<>>
    /\ err' = NoError
    /\ idx' = 1
    /\ success_count' = 0
    /\ fail_count' = 0
    /\ cmd' = None
    /\ output_lines' = <<>>
    /\ returncode' = -1
    /\ success' = FALSE
    /\ ok' = FALSE
    /\ result' = FALSE
    /\ nlines' = 0
    /\ requests' = <<>>
    /\ responses' = <<>>
    /\ examined' = None
    /\ ran' = None
    /\ produced' = <<>>
    /\ rets' = <<>>
    /\ mark' = 0
    /\ UNCHANGED <<status_cb, output_cb, orphans, fs, dialog, ui_pc>>

\* One step of process_repos inside sync_thread.
WorkerStep ==
    /\ workers > 0
    /\ Next
    /\ Len(acc') <= GuiMaxRepos
    /\ nlines' <= GuiMaxLines
    /\ orphans' <= 1

\* self.output_queue.put(("done", None)), and the thread ends.
WorkerDone ==
    /\ workers > 0
    /\ pc = "done"
    /\ trace' = Append(trace, DoneItem)
    /\ pc' = "stopped"
    /\ workers' = workers - 1
    /\ UNCHANGED <<cbs, orphans, listing, loop, call, repos, result, fs, nlines, controls,
                   session, dialog, ui_pc, out_taken, st_taken, output_text, tree, applied>>

\* As LogTake, with the loop left before the done item is taken.
LogTake_beforeDone(q) ==
    IF \E i \in DOMAIN q : IsDone(q[i])
    THEN (CHOOSE i \in DOMAIN q : IsDone(q[i]) /\ \A j \in 1..(i - 1) : ~IsDone(q[j])) - 1
    ELSE Len(q)

\* The first loop of update_ui takes the items up to the done item, or all
\* of them when there is none.
LogTake(q) ==
    IF \E i \in DOMAIN q : IsDone(q[i])
    THEN CHOOSE i \in DOMAIN q : IsDone(q[i]) /\ \A j \in 1..(i - 1) : ~IsDone(q[j])
    ELSE Len(q)

\* As ApplyLog, with the text replaced.
ApplyLog_replace(text, items) == SelectSeq(items, LAMBDA e : ~IsDone(e))

\* self.output_text.insert(tk.END, msg + "\n") for every log item taken.
ApplyLog(text, items) == text \o SelectSeq(items, LAMBDA e : ~IsDone(e))

\* The first loop of update_ui.
UpdateUiLog ==
    /\ ui_pc = "idle"
    /\ LET q == output_queue
           n == LogTake(q)
           items == SubSeq(q, 1, n)
       IN /\ out_taken' = out_taken + n
          /\ output_text' = ApplyLog(output_text, items)
          /\ controls' = IF n > 0 /\ IsDone(q[n]) THEN "normal" ELSE controls
    /\ ui_pc' = "status"
    /\ UNCHANGED <<pc, cbs, orphans, listing, loop, call, repos, result, fs, nlines, trace,
                   workers, session, dialog, st_taken, tree, applied>>

\* update_repo_status: a new row for a new name, else the status of its row.
UpdateRepoStatus(rows, name, status) ==
    IF \E i \in DOMAIN rows : rows[i][1] = name
    THEN [i \in DOMAIN rows |-> IF rows[i][1] = name THEN <<name, status>> ELSE rows[i]]
    ELSE Append(rows, <<name, status>>)

RECURSIVE ApplyStatuses(_, _)
ApplyStatuses(rows, items) ==
    IF items = <<>> THEN rows
    ELSE ApplyStatuses(UpdateRepoStatus(rows, Head(items).a, Head(items).kind), Tail(items))

\* As StatusTake, with one item taken per tick.
StatusTake_one(q) == IF q = <<>> THEN 0 ELSE 1

\* The second loop of update_ui takes items until the queue is empty.
StatusTake(q) == Len(q)

\* The second loop of update_ui, and the re-arming of the timer.
UpdateUiStatus ==
    /\ ui_pc = "status"
    /\ LET q == status_queue
           n == StatusTake(q)
           items == SubSeq(q, 1, n)
       IN /\ st_taken' = st_taken + n
          /\ applied' = applied \o items
          /\ tree' = ApplyStatuses(tree, items)
    /\ ui_pc' = "idle"
    /\ UNCHANGED <<pc, cbs, orphans, listing, loop, call, repos, result, fs, nlines, trace,
                   controls, workers, session, dialog, out_taken, output_text>>

Toggles == {"safe_directory", "ssl_verify"}

\* on_safe_directory_toggle, on_ssl_verify_toggle: the controls are disabled,
\* git config runs; when it fails an error dialog opens (and the handler
\* stays in it), else the handler ends and enables the controls.
ToggleBegin(which, failed) ==
    /\ ui_pc = "idle"
    /\ dialog = None
    /\ ButtonEnabled(controls)
    /\ IF failed
       THEN /\ controls' = "disabled"
            /\ dialog' = which
       ELSE /\ controls' = "normal"
            /\ UNCHANGED dialog
    /\ UNCHANGED <<pc, cbs, orphans, listing, loop, call, repos, result, fs, nlines, trace,
                   workers, session, ui_pc, out_taken, st_taken, output_text, tree, applied>>

\* The error dialog is closed: finally: self.set_controls_state("normal").
ToggleEnd ==
    /\ ui_pc = "idle"
    /\ dialog # None
    /\ controls' = "normal"
    /\ dialog' = None
    /\ UNCHANGED <<pc, cbs, orphans, listing, loop, call, repos, result, fs, nlines, trace,
                   workers, session, ui_pc, out_taken, st_taken, output_text, tree, applied>>

NextGui ==
    \/ \E t \in {None, Secret, BadSecret} : StartSync(t)
    \/ WorkerStep
    \/ WorkerDone
    \/ UpdateUiLog
    \/ UpdateUiStatus
    \/ \E which \in Toggles, failed \in BOOLEAN : ToggleBegin(which, failed)
    \/ ToggleEnd

SpecGui == InitGui /\ [][NextGui]_vars

\* The steps of the sync_thread thread, and those of the update_ui timer.
Worker == WorkerStep \/ WorkerDone
Poller == UpdateUiLog \/ UpdateUiStatus

\* The scheduling of the application: the thread runs as long as it has a
\* step to take (every request is answered, every subprocess ends), and
\* root.after(100, self.update_ui) at the end of each tick arms the next one.
Scheduling ==
    /\ WF_vars(Worker)
    /\ WF_vars(Poller)

\* start_sync, for the first session of a run of the application.
StartSyncLive(t) ==
    /\ session = 0
    /\ StartSync(t)

NextGuiLive ==
    \/ \E t \in {None, Secret, BadSecret} : StartSyncLive(t)
    \/ WorkerStep
    \/ WorkerDone
    \/ UpdateUiLog
    \/ UpdateUiStatus
    \/ \E which \in Toggles, failed \in BOOLEAN : ToggleBegin(which, failed)
    \/ ToggleEnd

SpecGuiFair == InitGui /\ [][NextGuiLive]_vars /\ Scheduling

\* ---- vocabulary of the properties ----

\* The part of trace that belongs to the current clone_or_pull call.
Segment == SubSeq(trace, mark + 1, Len(trace))

IsStatus(e, repo_name, status) ==
    e.ch = "status" /\ e.kind = status /\ e.a = repo_name

IsTerminalEvent(e) == e.ch = "status" /\ e.kind \in Terminal

IsGitCall(e) == e.ch = "git"

StatusEvents(tr) == SelectSeq(tr, LAMBDA e : e.ch = "status")
TerminalEvents(tr) == SelectSeq(tr, IsTerminalEvent)
GitCalls(tr) == SelectSeq(tr, IsGitCall)
OutputLines(tr) == SelectSeq(tr, LAMBDA e : e.ch = "output" /\ e.kind = "out")

CountOf(s, v) == Cardinality({i \in DOMAIN s : s[i] = v})

\* process_repos returned after processing a non-empty listing.
Finished == pc = "done" /\ err.class = None /\ repos # <<>>

\* Positions of process_repos inside a clone_or_pull call, before its return.
InCall == {"cp_check", "skip_status", "run", "reading", "cp_status"}

\* ---- C1 ----
\* C1: after a non-empty listing fetched without error, process_repos returns
\* true iff every clone_or_pull call returned true, which is iff no repository
\* ended Failed or Skipped; the summary line reports the number of calls that
\* returned true and the number that returned false (so 2 successes and 1
\* skip give false and "2 succeeded, 1 failed").
C1_ResultIffNoFailureOrSkip ==
    Finished =>
        /\ Len(rets) = Len(repos)
        /\ result = (\A i \in DOMAIN rets : rets[i])
        /\ status_cb =>
             (result = ~(\E i \in DOMAIN trace :
                            /\ trace[i].ch = "status"
                            /\ trace[i].kind \in {"Failed", "Skipped"}))
        /\ output_cb =>
             LET last == trace[Len(trace)]
             IN /\ last.ch = "output"
                /\ last.kind = "summary"
                /\ last.a = CountOf(rets, TRUE)
                /\ last.b = CountOf(rets, FALSE)

\* Three repositories, two succeed and one is skipped: false, summary 2 and 1.
C1_Witness ==
    /\ Finished
    /\ status_cb
    /\ output_cb
    /\ Len(repos) = 3
    /\ CountOf(rets, TRUE) = 2
    /\ \E i \in DOMAIN trace : trace[i].ch = "status" /\ trace[i].kind = "Skipped"
    /\ result = FALSE
    /\ trace[Len(trace)].kind = "summary"
    /\ trace[Len(trace)].a = 2
    /\ trace[Len(trace)].b = 1

\* ---- C2 ----
\* C2: when process_repos has processed a non-empty listing, the terminal
\* status events passed to the status callback are as many as the
\* repositories get_user_repos returned, the i-th of them for the i-th
\* repository.
C2_OneTerminalEventPerRepo ==
    (Finished /\ status_cb) =>
        LET term == TerminalEvents(trace)
        IN /\ Len(term) = Len(repos)
           /\ \A i \in DOMAIN term : term[i].a = repos[i].name

\* A run of three repositories that ended Success, Failed and Skipped.
C2_Witness ==
    /\ Finished
    /\ status_cb
    /\ Len(repos) = 3
    /\ \A s \in Terminal :
          \E i \in DOMAIN trace : trace[i].ch = "status" /\ trace[i].kind = s

\* ---- C3 ----
\* C3: a clone_or_pull call passes exactly two status events to the status
\* callback: Processing, which is the first thing the call emits or runs, and
\* one terminal status, which is the last thing before it returns; until
\* then Processing is the only status of the call.
C3_ProcessingThenOneTerminal ==
    status_cb =>
        /\ pc \in InCall =>
             /\ Len(StatusEvents(Segment)) = 1
             /\ IsStatus(Segment[1], Repo.name, "Processing")
        /\ pc = "cp_ret" =>
             LET seg == Segment
                 st == StatusEvents(seg)
             IN /\ Len(st) = 2
                /\ IsStatus(seg[1], Repo.name, "Processing")
                /\ IsTerminalEvent(seg[Len(seg)])
                /\ seg[Len(seg)].a = Repo.name

\* A clone_or_pull call that announced, ran git, forwarded a line and returns.
C3_Witness ==
    /\ pc = "cp_ret"
    /\ status_cb
    /\ output_cb
    /\ Len(Segment) >= 5

\* ---- C4 ----
\* C4: a repository whose local path does not exist when clone_or_pull
\* examines it is passed to run_git_command as a clone of its clone_url into
\* that path, once, and never as a pull; it ends Success iff the clone
\* exited with 0, Failed otherwise, and clone_or_pull returns accordingly.
C4_AbsentPathIsCloned ==
    examined = "absent" =>
        /\ pc \in {"run", "reading", "cp_status", "cp_ret"}
        /\ cmd = "clone"
        /\ \A i \in DOMAIN Segment :
              IsGitCall(Segment[i]) =>
                  /\ Segment[i].kind = "clone"
                  /\ Segment[i].a = Repo.clone_url
                  /\ Segment[i].b = Path
        /\ Len(GitCalls(Segment)) = IF pc = "run" THEN 0 ELSE 1
        /\ pc = "cp_ret" =>
             /\ ok = (returncode = 0)
             /\ status_cb =>
                  IsStatus(Segment[Len(Segment)], Repo.name,
                           IF returncode = 0 THEN "Success" ELSE "Failed")

\* A clone of an absent path that succeeded, at the return of the call.
C4_Witness ==
    /\ examined = "absent"
    /\ pc = "cp_ret"
    /\ status_cb
    /\ returncode = 0
    /\ idx = 2

\* ---- C5 ----
\* C5: a repository whose local path exists without a .git directory ends
\* Skipped, clone_or_pull returns false for it, and run_git_command is not
\* called for it.
C5_PlainPathIsSkipped ==
    examined = "plain" =>
        /\ pc \in {"skip_status", "cp_ret"}
        /\ cmd = None
        /\ returncode = -1
        /\ GitCalls(Segment) = <<>>
        /\ pc = "cp_ret" =>
             /\ ok = FALSE
             /\ status_cb => IsStatus(Segment[Len(Segment)], Repo.name, "Skipped")

\* A skipped repository at the return of the call.
C5_Witness ==
    /\ examined = "plain"
    /\ pc = "cp_ret"
    /\ status_cb
    /\ output_cb

\* ---- C6 ----
\* The items of the 2xx responses, in response order and in body order.
RECURSIVE Flatten(_)
Flatten(rs) == IF rs = <<>> THEN <<>> ELSE Head(rs).data \o Flatten(Tail(rs))

\* A response after which the pagination loop is to stop.
Stops(r) == r.data = <<>> \/ ~r.next

\* get_user_repos returned its list.
Listed == err.class = None /\ pc = "listed"

\* C6: the k-th listing request asks for page k; while the loop runs every
\* page so far was non-empty with a next link; when get_user_repos returns,
\* the last response is the first with an empty body or without a next link,
\* the requests are as many as the non-empty pages, plus one iff the last
\* response is an empty page, and the list returned is the items of all
\* pages in page order and in within-page order.
C6_PaginationOrderedAndStops ==
    /\ \A k \in DOMAIN requests : requests[k].page = k
    /\ pc = "request" =>
         /\ page = Len(requests) + 1
         /\ \A k \in DOMAIN responses : ~Stops(responses[k])
    /\ Listed =>
         LET n == Len(responses)
             nonEmpty == Cardinality({k \in 1..n : responses[k].data # <<>>})
             items == Flatten(responses)
         IN /\ n >= 1
            /\ Len(requests) = n
            /\ Stops(responses[n])
            /\ \A k \in 1..(n - 1) : ~Stops(responses[k])
            /\ Len(requests) = nonEmpty + (IF responses[n].data = <<>> THEN 1 ELSE 0)
            /\ Len(repos) = Len(items)
            /\ \A i \in DOMAIN repos :
                  /\ repos[i].name = items[i].name
                  /\ repos[i].clone_url = items[i].clone_url

\* Two pages of results in two requests.
C6_Witness ==
    /\ Listed
    /\ Len(requests) = 2
    /\ responses[2].data # <<>>
    /\ Len(repos) = 3

\* ---- C7 ----
\* C7: when a listing request is answered with HTTP 404, get_user_repos
\* raises the user-not-found error, no clone_or_pull call is made, no status
\* event is emitted, run_git_command is not called, and process_repos
\* returns false.
C7_NotFoundProcessesNothing ==
    (responses # <<>> /\ responses[Len(responses)].status = 404) =>
        /\ err.class = "UserNotFound"
        /\ pc \in {"list_error", "done"}
        /\ rets = <<>>
        /\ nlines = 0
        /\ \A i \in DOMAIN trace : trace[i].ch = "output"
        /\ pc = "done" => result = FALSE

\* process_repos returned after a 404.
C7_Witness ==
    /\ responses # <<>>
    /\ responses[Len(responses)].status = 404
    /\ pc = "done"
    /\ status_cb
    /\ output_cb

\* ---- C8 ----
\* line is raw without its trailing whitespace.
IsRstripOf(line, raw) ==
    /\ Len(line) <= Len(raw)
    /\ SubSeq(raw, 1, Len(line)) = line
    /\ \A j \in (Len(line) + 1)..Len(raw) : raw[j] \in Whitespace
    /\ line # <<>> => line[Len(line)] \notin Whitespace

\* C8: when the git subprocess of a clone or a pull exited with a nonzero
\* status, the output callback has been called once per line the subprocess
\* wrote, in the order written, each with the line less its trailing
\* whitespace, all before the terminal status, which is Failed.
C8_NonzeroExitFailsAfterOutput ==
    returncode > 0 =>
        /\ pc \in {"cp_status", "cp_ret"}
        /\ output_cb =>
             LET out == OutputLines(Segment)
             IN /\ Len(out) = Len(produced)
                /\ \A k \in DOMAIN out : IsRstripOf(out[k].a, produced[k])
        /\ pc = "cp_status" => TerminalEvents(Segment) = <<>>
        /\ pc = "cp_ret" =>
             /\ ok = FALSE
             /\ status_cb => IsStatus(Segment[Len(Segment)], Repo.name, "Failed")

\* A subprocess that wrote two lines and exited with 1, at the return of the call.
C8_Witness ==
    /\ returncode > 0
    /\ pc = "cp_ret"
    /\ Len(produced) = 2
    /\ status_cb
    /\ output_cb

\* ---- C9 ----
\* C9: when the listing fails on any page, process_repos logs the error and
\* returns false at once: the items of the pages already fetched are never
\* bound to repos, no status event is emitted and run_git_command is not
\* called.
C9_ListingErrorAborts ==
    err.class # None =>
        /\ pc \in {"list_error", "done"}
        /\ repos = <<>>
        /\ rets = <<>>
        /\ nlines = 0
        /\ \A i \in DOMAIN trace : trace[i].ch = "output"
        /\ pc = "done" =>
             /\ result = FALSE
             /\ output_cb =>
                  /\ Len(trace) = 2
                  /\ trace[1].kind = "fetching"
                  /\ trace[2].kind = "error"
                  /\ trace[2].a = err.class

\* The listing failed on the second page, after a first page was fetched.
C9_Witness ==
    /\ err.class # None
    /\ pc = "done"
    /\ Len(responses) = 2
    /\ acc # <<>>
    /\ output_cb
    /\ status_cb

\* ---- C10 ----
\* C10: when the listing succeeds and is empty, process_repos logs that
\* nothing was found, emits no status event, calls run_git_command for
\* nothing, emits no summary line and returns true.
C10_EmptyListingIsSuccess ==
    (pc = "done" /\ err.class = None /\ repos = <<>>) =>
        /\ result = TRUE
        /\ rets = <<>>
        /\ nlines = 0
        /\ \A i \in DOMAIN trace : trace[i].ch = "output"
        /\ output_cb =>
             /\ Len(trace) = 2
             /\ trace[1].kind = "fetching"
             /\ trace[2].kind = "none_found"

\* process_repos returned after an empty listing.
C10_Witness ==
    /\ pc = "done"
    /\ err.class = None
    /\ repos = <<>>
    /\ output_cb
    /\ status_cb

\* ---- C11 ----
\* Positions of process_repos inside the for loop.
InLoop == InCall \cup {"cp_begin", "cp_ret"}

\* C11: whatever the calls of clone_or_pull return, the for loop goes
\* through the whole listing: inside the loop the calls that returned are
\* those of the repositories before the current one, and when process_repos
\* returns after a non-empty listing there was one call per repository, each
\* with its Processing status, and the summary line is the last log line.
C11_FailureIsNotFatal ==
    /\ pc \in InLoop =>
         /\ idx \in 1..Len(repos)
         /\ Len(rets) = idx - 1
    /\ (pc = "summary" \/ Finished) =>
         /\ Len(rets) = Len(repos)
         /\ status_cb =>
              LET st == SelectSeq(trace, LAMBDA e : e.ch = "status" /\ e.kind = "Processing")
              IN /\ Len(st) = Len(repos)
                 /\ \A i \in DOMAIN st : st[i].a = repos[i].name
    /\ (Finished /\ output_cb) =>
         /\ trace[Len(trace)].ch = "output"
         /\ trace[Len(trace)].kind = "summary"

\* Three repositories, the first two fail or are skipped, the third succeeds.
C11_Witness ==
    /\ Finished
    /\ status_cb
    /\ output_cb
    /\ rets = <<FALSE, FALSE, TRUE>>
    /\ trace[Len(trace)].kind = "summary"

\* ---- C12 ----
\* C12: the exception get_user_repos raises is of the one class its failed
\* request calls for: rate-limited for a 403 whose text holds "rate limit",
\* user-not-found for a 404, API-request-failed with the status and the text
\* of the answer for every other HTTP error status, transport error with
\* the cause for a failure without HTTP status; the failed request is the
\* last one issued.
C12_ErrorClasses ==
    err.class # None =>
        LET n == Len(responses)
            r == responses[n]
        IN /\ n >= 1
           /\ Len(requests) = n
           /\ pc \in {"list_error", "done"}
           /\ \A k \in 1..(n - 1) : responses[k].status = 200
           /\ r.status # 200
           /\ (r.status = 403 /\ r.rate_limit) <=> err.class = "RateLimited"
           /\ r.status = 404 <=> err.class = "UserNotFound"
           /\ (r.status \notin {0, 404} /\ ~(r.status = 403 /\ r.rate_limit))
                 <=> err.class = "APIRequestFailed"
           /\ r.status = 0 <=> err.class = "TransportError"
           /\ err.class = "APIRequestFailed" =>
                 ErrorText(err) = <<"APIRequestFailed", r.status, r.rate_limit>>
           /\ err.class = "TransportError" =>
                 /\ ErrorText(err)[1] = "TransportError"
                 /\ ErrorText(err)[2] = r.cause

\* A 429 that mentions the rate limit, on the second page.
C12_Witness ==
    /\ err.class = "APIRequestFailed"
    /\ err.code = 429
    /\ err.rate_limit
    /\ Len(responses) = 2
    /\ pc = "done"

\* ---- C13 ----
\* The strings a log line is made of.
Strings(e) ==
    IF e.kind = "fetching" THEN {e.a}
    ELSE IF e.kind = "error"
         THEN {e.a} \cup (IF e.a = "TransportError"
                          THEN {e.b[k] : k \in 2..Len(e.b)} ELSE {})
    ELSE IF e.kind = "clone" THEN {e.a[1], e.a[2], e.b[1]}
    ELSE IF e.kind \in {"skip", "pull"} THEN {e.a[1]}
    ELSE IF e.kind = "out" THEN {e.a[j] : j \in DOMAIN e.a}
    ELSE {}

\* C13: when a token is supplied, every request get_user_repos issues, for
\* whatever page, carries the Authorization header with that token, and no
\* log line passed to the output callback holds the token.
C13_TokenSentNotLogged ==
    token # None =>
        /\ \A k \in DOMAIN requests :
              requests[k].headers = <<"Authorization", "token", token>>
        /\ \A i \in DOMAIN trace :
              trace[i].ch = "output" => token \notin Strings(trace[i])

\* The part of C13 about the requests.
C13_TokenOnEveryRequest ==
    token # None =>
        \A k \in DOMAIN requests :
           requests[k].headers = <<"Authorization", "token", token>>

\* ---- C14 ----
\* C14: run_git_command returns succeeded = true iff the subprocess was
\* launched, its output was read to the end and its exit code is zero; when
\* the launch or the reading fails it returns false to clone_or_pull, which
\* goes on to the terminal status.
C14_SucceededIffExitZero ==
    /\ pc \in {"cp_status", "cp_ret"} /\ cmd # None =>
         /\ ran \in {"launch_failed", "read_failed", "exited"}
         /\ success = (ran = "exited" /\ returncode = 0)
         /\ ran # "exited" => returncode = -1
    /\ ran \in {"launch_failed", "read_failed"} =>
         /\ pc \in {"cp_status", "cp_ret"}
         /\ ~success
         /\ pc = "cp_ret" =>
              /\ ~ok
              /\ status_cb => IsStatus(Segment[Len(Segment)], Repo.name, "Failed")

\* A pull whose output could not be read, at the return of clone_or_pull.
C14_Witness ==
    /\ ran = "read_failed"
    /\ cmd = "pull"
    /\ pc = "cp_ret"
    /\ Len(produced) = 1
    /\ status_cb

\* ---- C15 ----
\* The log lines of the current clone_or_pull call that follow its call of
\* run_git_command.
LinesAfterGitCall ==
    LET seg == Segment
    IN {i \in DOMAIN seg :
          /\ seg[i].ch = "output"
          /\ \E j \in 1..(i - 1) : IsGitCall(seg[j])}

\* C15: every error produces a log line: a listing error a line that
\* describes it, a clone or a pull that failed (nonzero exit, or a git
\* subprocess that could not be launched) a line with the output or the
\* description of the failure.
C15_EveryErrorLogged ==
    output_cb =>
        /\ (pc = "done" /\ err.class # None) =>
              /\ trace[Len(trace)].kind = "error"
              /\ trace[Len(trace)].a = err.class
        /\ (pc = "cp_ret" /\ ran = "exited" /\ ~ok) =>
              Cardinality(LinesAfterGitCall) = Len(produced)
        /\ (pc = "cp_ret" /\ ran = "launch_failed") => LinesAfterGitCall # {}

\* C15, as far as the code goes: a listing error is logged with its class;
\* of a clone or a pull that failed, every line the subprocess wrote is logged.
C15_ListingErrorLogged ==
    output_cb =>
        /\ (pc = "done" /\ err.class # None) =>
              /\ trace[Len(trace)].kind = "error"
              /\ trace[Len(trace)].a = err.class
        /\ (pc = "cp_ret" /\ cmd # None /\ ~ok) =>
              Cardinality(LinesAfterGitCall) = Len(produced)

\* ---- C17 ----
\* The repositories whose latest status event is Processing.
NowProcessing ==
    {i \in DOMAIN repos :
        \E k \in DOMAIN trace :
           /\ IsStatus(trace[k], repos[i].name, "Processing")
           /\ \A l \in (k + 1)..Len(trace) :
                 ~(trace[l].ch = "status" /\ trace[l].a = repos[i].name)}

\* The git subprocesses that are running.
RunningGit == (IF pc = "reading" THEN 1 ELSE 0) + orphans

\* The status events alternate: Processing of a repository, its terminal
\* status, Processing of the next one.
StatusesAlternate ==
    LET st == StatusEvents(trace)
    IN \A k \in DOMAIN st :
          /\ st[k].kind = (IF k % 2 = 1 THEN "Processing" ELSE st[k].kind)
          /\ k % 2 = 0 => st[k].kind \in Terminal /\ st[k].a = st[k - 1].a
          /\ k % 2 = 1 => st[k].a = repos[(k + 1) \div 2].name

\* C17: the repositories are processed one after the other in listing
\* order: the status events alternate, at most one repository has Processing
\* as its latest status, and at most one git subprocess is running.
C17_StrictlySequential ==
    /\ status_cb => (StatusesAlternate /\ Cardinality(NowProcessing) <= 1)
    /\ RunningGit <= 1

\* The part of C17 about status events.
C17_StatusesSequential ==
    status_cb => (StatusesAlternate /\ Cardinality(NowProcessing) <= 1)

\* ---- C18 ----
IsActionLine(e) == e.ch = "output" /\ e.kind \in {"clone", "pull", "skip"}

\* C18: the events of a clone_or_pull call come in the order Processing, one
\* action line (clone, pull or skip), the call of run_git_command (none for a
\* skip), the output lines of the subprocess, the terminal status.
C18_EventOrder ==
    /\ (pc \in {"run", "skip_status"} /\ output_cb) =>
         /\ Len(Segment) >= 1
         /\ IsActionLine(Segment[Len(Segment)])
         /\ GitCalls(Segment) = <<>>
    /\ pc = "cp_ret" =>
         LET seg == Segment
             body == SelectSeq(seg, LAMBDA e : e.ch # "status")
             outs == SelectSeq(seg, LAMBDA e : e.ch = "output")
         IN /\ status_cb =>
                 /\ IsStatus(seg[1], Repo.name, "Processing")
                 /\ IsTerminalEvent(seg[Len(seg)])
                 /\ \A i \in 2..(Len(seg) - 1) : seg[i].ch # "status"
            /\ output_cb =>
                 /\ Len(outs) >= 1
                 /\ IsActionLine(body[1])
                 /\ \A k \in 2..Len(outs) : outs[k].kind = "out"
                 /\ outs[1].kind = "skip" <=> examined = "plain"
                 /\ outs[1].kind = "skip" => Len(body) = 1
                 /\ outs[1].kind # "skip" =>
                       /\ Len(body) >= 2
                       /\ IsGitCall(body[2])
                       /\ outs[1].kind = body[2].kind
                       /\ Len(outs) = 1 + Len(produced)

\* A clone that wrote two lines, at the return of clone_or_pull.
C18_Witness ==
    /\ pc = "cp_ret"
    /\ status_cb
    /\ output_cb
    /\ cmd = "clone"
    /\ Len(produced) = 2
    /\ Len(Segment) = 6

\* ---- C16 ----
LogLines(items) == SelectSeq(items, LAMBDA e : ~IsDone(e))

\* C16: what update_ui applied so far, followed by what is still in the
\* queue, is what the worker put, for the log lines and for the status
\* events: same items, same order, each once; a done item is the last thing
\* the worker put on either queue, and it is there once the worker ended.
C16_FifoChannels ==
    /\ output_text \o LogLines(output_queue) = LogLines(OutputPuts)
    /\ applied \o status_queue = StatusPuts
    /\ out_taken <= Len(OutputPuts)
    /\ st_taken <= Len(StatusPuts)
    /\ \A i \in DOMAIN trace : IsDone(trace[i]) => i = Len(trace)
    /\ (session > 0 /\ pc = "stopped") =>
          /\ trace # <<>>
          /\ IsDone(trace[Len(trace)])

\* A session over one repository whose clone wrote a line, all applied: five
\* log lines and two status events.
C16_Witness ==
    /\ session = 1
    /\ pc = "stopped"
    /\ output_queue = <<>>
    /\ status_queue = <<>>
    /\ Len(output_text) = 5
    /\ out_taken = 6
    /\ Len(applied) = 2

\* ---- C19 ----
\* A session is open from start_sync until update_ui took its done item.
SessionOpen == workers > 0 \/ \E i \in DOMAIN output_queue : IsDone(output_queue[i])

\* C19: never two sync_thread threads; while a session is open the controls
\* are disabled and no toggle handler is under way, so neither start_sync nor
\* a toggle that would enable the controls can run.
C19_OneWorkerAtATime ==
    /\ workers <= 1
    /\ SessionOpen =>
          /\ controls = "disabled"
          /\ dialog = None

\* The second session under way, after the first one ended.
C19_Witness ==
    /\ session = 2
    /\ workers = 1
    /\ pc = "cp_ret"
    /\ controls = "disabled"

\* ---- C20 ----
\* The done item of the latest session was taken.
DoneConsumed == session > 0 /\ pc = "stopped" /\ ~SessionOpen

\* C20: once the tick that took the done item is over, both queues are
\* empty, every status event of the session was applied and no row shows
\* Processing; a session starts with both queues empty.
C20_DrainedAtDone ==
    /\ (DoneConsumed /\ ui_pc = "idle") =>
          /\ output_queue = <<>>
          /\ status_queue = <<>>
          /\ applied = StatusPuts
          /\ \A i \in DOMAIN tree : tree[i][2] \in Terminal
    /\ (workers > 0 /\ pc = "start") =>
          /\ trace = <<>>
          /\ tree = <<>>
          /\ output_text = <<>>

\* The second session ended with its repository failed, all of it applied.
C20_Witness ==
    /\ DoneConsumed
    /\ ui_pc = "idle"
    /\ session = 2
    /\ controls = "normal"
    /\ tree = <<<<1, "Failed">>>>

\* ---- C21 ----
\* The done items among what the worker put since the session began.
DonePuts == SelectSeq(OutputPuts, IsDone)

\* C21: under the scheduling of the application a session that is open leads
\* to its done item taken by update_ui and the controls enabled, whatever
\* path process_repos took; the worker never puts two done items.
C21_SessionCompletes ==
    /\ [](Len(DonePuts) <= 1)
    /\ SessionOpen ~> (DoneConsumed /\ Len(DonePuts) = 1 /\ controls = "normal")

\* A session that ended on a listing error, its done item taken and the
\* controls enabled again.
C21_Witness ==
    /\ DoneConsumed
    /\ session = 1
    /\ err.class = "RateLimited"
    /\ Len(DonePuts) = 1
    /\ out_taken = 3
    /\ controls = "normal"

\* ---- C22 ----
\* What a call of clone_or_pull does and returns, as a function of what lies
\* at the local path and of how the subprocess ended, and what process_repos
\* returns, as a function of what the calls returned: no callback in them.
ExpectedDecision(found) ==
    IF found = "absent" THEN "clone" ELSE IF found = "plain" THEN "skip" ELSE "pull"

ExpectedReturn(found, how, code) ==
    ExpectedDecision(found) # "skip" /\ how = "exited" /\ code = 0

ExpectedResult(returned) == \A i \in DOMAIN returned : returned[i]

\* C22: with both callbacks, one of them or none, the branch clone_or_pull
\* takes, the git command it runs, the value it returns and the value
\* process_repos returns are the same functions of the listing, of the
\* filesystem and of the outcomes of the subprocesses; the git commands run
\* in listing order; a callback that is not supplied is not called.
C22_CallbacksArePureObservers ==
    /\ pc = "skip_status" => (ExpectedDecision(examined) = "skip" /\ cmd = None)
    /\ pc \in {"run", "reading", "cp_status"} => cmd = ExpectedDecision(examined)
    /\ pc = "cp_ret" =>
         LET d == ExpectedDecision(examined)
             g == GitCalls(Segment)
         IN /\ cmd = (IF d = "skip" THEN None ELSE d)
            /\ ok = ExpectedReturn(examined, ran, returncode)
            /\ Len(g) = (IF d = "skip" THEN 0 ELSE 1)
            /\ d # "skip" =>
                 /\ g[1].kind = d
                 /\ g[1].b = LocalPath(base_dir, repos[idx].name)
    /\ pc = "done" =>
         result = (err.class = None /\ ExpectedResult(rets))
    /\ (pc = "done" /\ err.class = None) => Len(rets) = Len(repos)
    /\ LET g == GitCalls(trace)
       IN \A k, l \in DOMAIN g : k < l => g[k].b[2] < g[l].b[2]
    /\ ~status_cb => \A i \in DOMAIN trace : trace[i].ch # "status"
    /\ ~output_cb => \A i \in DOMAIN trace : trace[i].ch # "output"

\* A run without callbacks over three repositories: a clone that succeeded,
\* a skip, a pull that failed.
C22_Witness ==
    /\ pc = "done"
    /\ ~status_cb
    /\ ~output_cb
    /\ rets = <<TRUE, FALSE, FALSE>>
    /\ Len(GitCalls(trace)) = 2
    /\ GitCalls(trace)[1].kind = "clone"
    /\ GitCalls(trace)[2].kind = "pull"
    /\ ~result

====
